---- MODULE Spec2Model ----
(***************************************************************************)
(* Kon-Agent-export: the QUIC ingestion pipeline (main/quic_server.go),    *)
(* the sample processor (pkg/processor) and the bounded in-memory store    *)
(* (pkg/storage), as a state machine.                                      *)
(*                                                                         *)
(* Time is kept as the code keeps it: a time.Time is its UnixNano value.   *)
(* A ProcessedMetric is the record of the fields the code reads or         *)
(* compares: AgentID, Timestamp, Name, Type, RawType (Value, Labels and   *)
(* Payload are copied through and never inspected).                        *)
(***************************************************************************)
EXTENDS Integers, Sequences, FiniteSets, TLC

\* ------------------------------------------------------------------ bounds

\* cfg.Storage.MaxSize, scaled down (the default is 10000).
maxSize == 2
\* cfg.Storage.ExpireTime in milliseconds, scaled down (the default is 24h).
expireMillis == 1
\* The wall clock runs from 1 ms to MaxNow ms.
MaxNow == 3
\* Samples ever handed to SaveMetrics in one run of StoreSpec.
MaxInserted == 4
\* Longest slice one SaveMetrics call of StoreSpec carries.
MaxBatch == 3
\* Largest limit a query is given.
MaxLimit == 3

\* ---------------------------------------------------------------- protocol

\* time.Millisecond, in nanoseconds.
NanosPerMilli == 1000000

\* protocol.MetricType: the first and the last value of the enum.
MetricType_CPU_USAGE == 0
MetricType_EBPF_RAW == 2

\* protocol.MetricType.String(): the enum value's name, or its number for a
\* value outside the enum.
MetricTypeString(t) ==
  CASE t = 0 -> "CPU_USAGE"
    [] t = 1 -> "MEMORY_USAGE"
    [] t = 2 -> "EBPF_RAW"
    [] OTHER -> "UNKNOWN"

\* time.Unix(0, ms * int64(time.Millisecond)) as UnixNano.
UnixMilli(ms) == ms * NanosPerMilli

\* s.expireTime as a time.Duration (nanoseconds).
expireTime == expireMillis * NanosPerMilli

\* ------------------------------------------------------------ pkg/processor

\* Mutant of validateMetric: the type is checked before the name and the
\* timestamp.
validateMetric_TypeFirst(metric) ==
  LET emptyName == metric.Name = ""
      badTimestamp == metric.Timestamp <= 0
      badType == metric.Type < MetricType_CPU_USAGE \/ metric.Type > MetricType_EBPF_RAW
  IN  IF badType THEN "ErrInvalidMetricType"
      ELSE IF emptyName THEN "ErrEmptyMetricName"
      ELSE IF badTimestamp THEN "ErrInvalidTimestamp"
      ELSE "nil"

\* validateMetric: the error it returns, "nil" for none.
validateMetric(metric) ==
  IF metric.Name = "" THEN "ErrEmptyMetricName"
  ELSE IF metric.Timestamp <= 0 THEN "ErrInvalidTimestamp"
  ELSE IF metric.Type < MetricType_CPU_USAGE \/ metric.Type > MetricType_EBPF_RAW
       THEN "ErrInvalidMetricType"
  ELSE "nil"

\* ProcessSingleMetric: (processedMetric, err); the pointer is nil on error.
ProcessSingleMetric(agentID, metric) ==
  LET err == validateMetric(metric)
  IN  IF err # "nil"
      THEN [isNil |-> TRUE, err |-> err]
      ELSE [isNil |-> FALSE, err |-> "nil",
            metric |-> [AgentID   |-> agentID,
                        Timestamp |-> UnixMilli(metric.Timestamp),
                        Name      |-> metric.Name,
                        Type      |-> MetricTypeString(metric.Type),
                        RawType   |-> metric.Type]]

\* Mutant of ProcessBatchRequest: the loop stops at the first entry that
\* fails validation.
ProcessBatchRequest_StopAtFailure(req) ==
  LET firstBad == { i \in 1..Len(req.Metrics) : validateMetric(req.Metrics[i]) # "nil" }
      n == IF firstBad = {} THEN Len(req.Metrics)
           ELSE (CHOOSE i \in firstBad : \A j \in firstBad : i <= j) - 1
  IN  [processedMetrics |->
         [i \in 1..n |-> ProcessSingleMetric(req.AgentId, req.Metrics[i]).metric],
       failures |-> IF firstBad = {} THEN 0 ELSE 1]

\* ProcessBatchRequest: the processed metrics of the entries that validate,
\* in the request's order, and the number of "Failed to process metric" lines.
RECURSIVE ProcessBatchLoop(_, _, _, _)
ProcessBatchLoop(agentId, reqMetrics, processedMetrics, failures) ==
  IF reqMetrics = <<>>
  THEN [processedMetrics |-> processedMetrics, failures |-> failures]
  ELSE LET r == ProcessSingleMetric(agentId, Head(reqMetrics))
       IN  IF r.isNil
           THEN ProcessBatchLoop(agentId, Tail(reqMetrics), processedMetrics,
                                 failures + 1)
           ELSE ProcessBatchLoop(agentId, Tail(reqMetrics),
                                 Append(processedMetrics, r.metric), failures)

ProcessBatchRequest(req) == ProcessBatchLoop(req.AgentId, req.Metrics, <<>>, 0)

\* -------------------------------------------------------------- pkg/storage

\* Mutant of SaveMetricsOp: on overflow the newest entries are cut off.
SaveMetricsOp_KeepOldest(stored, new) ==
  LET appended == stored \o new
  IN  IF Len(appended) > maxSize THEN SubSeq(appended, 1, maxSize) ELSE appended

\* Mutant of SaveMetricsOp: the new entries are put in front of the stored ones.
SaveMetricsOp_Prepend(stored, new) ==
  LET appended == new \o stored
      deleteCount == Len(appended) - maxSize
  IN  IF Len(appended) > maxSize
      THEN SubSeq(appended, deleteCount + 1, Len(appended))
      ELSE appended

\* SaveMetrics: append, then keep the last maxSize entries.
SaveMetricsOp(stored, new) ==
  LET appended == stored \o new
      deleteCount == Len(appended) - maxSize
  IN  IF Len(appended) > maxSize
      THEN SubSeq(appended, deleteCount + 1, Len(appended))
      ELSE appended

\* The scan loop of GetMetricsByAgentID, from index i (1-based) downwards.
RECURSIVE ScanByAgentID(_, _, _, _, _)
ScanByAgentID(stored, agentID, limit, i, result) ==
  IF i >= 1 /\ Len(result) < limit
  THEN ScanByAgentID(stored, agentID, limit, i - 1,
                     IF stored[i].AgentID = agentID
                     THEN Append(result, stored[i]) ELSE result)
  ELSE result

\* Mutant of GetMetricsByAgentID: the scan starts one entry below the newest.
GetMetricsByAgentID_SkipNewest(stored, agentID, limit) ==
  IF limit < 0 THEN [panic |-> TRUE, result |-> <<>>]
  ELSE [panic |-> FALSE,
        result |-> ScanByAgentID(stored, agentID, limit, Len(stored) - 1, <<>>)]

\* make([]T, 0, limit) panics on a negative capacity.
GetMetricsByAgentID(stored, agentID, limit) ==
  IF limit < 0 THEN [panic |-> TRUE, result |-> <<>>]
  ELSE [panic |-> FALSE,
        result |-> ScanByAgentID(stored, agentID, limit, Len(stored), <<>>)]

RECURSIVE ScanByType(_, _, _, _, _)
ScanByType(stored, metricType, limit, i, result) ==
  IF i >= 1 /\ Len(result) < limit
  THEN ScanByType(stored, metricType, limit, i - 1,
                  IF stored[i].Type = metricType
                  THEN Append(result, stored[i]) ELSE result)
  ELSE result

GetMetricsByType(stored, metricType, limit) ==
  IF limit < 0 THEN [panic |-> TRUE, result |-> <<>>]
  ELSE [panic |-> FALSE,
        result |-> ScanByType(stored, metricType, limit, Len(stored), <<>>)]

\* Mutant of InTimeRange: the end bound is exclusive.
InTimeRange_EndExclusive(t, start, end) ==
  (t > start \/ t = start) /\ t < end

\* The range test of GetMetricsByTimeRange: (After || Equal) && (Before || Equal).
InTimeRange(t, start, end) ==
  (t > start \/ t = start) /\ (t < end \/ t = end)

RECURSIVE ScanByTimeRange(_, _, _, _, _, _)
ScanByTimeRange(stored, start, end, limit, i, result) ==
  IF i >= 1 /\ Len(result) < limit
  THEN ScanByTimeRange(stored, start, end, limit, i - 1,
                       IF InTimeRange(stored[i].Timestamp, start, end)
                       THEN Append(result, stored[i]) ELSE result)
  ELSE result

GetMetricsByTimeRange(stored, start, end, limit) ==
  IF limit < 0 THEN [panic |-> TRUE, result |-> <<>>]
  ELSE [panic |-> FALSE,
        result |-> ScanByTimeRange(stored, start, end, limit, Len(stored), <<>>)]

\* Mutant of GetLatestMetrics: the slice is taken from the front of the store.
GetLatestMetrics_Oldest(stored, limit) ==
  LET lim == IF limit > Len(stored) THEN Len(stored) ELSE limit
  IN  IF lim < 0
      THEN [panic |-> TRUE, result |-> <<>>]
      ELSE [panic |-> FALSE, result |-> SubSeq(stored, 1, lim)]

\* GetLatestMetrics: s.metrics[len-limit:], after clamping limit to len. A
\* negative limit makes startIdx exceed len, and the slice expression panics.
GetLatestMetrics(stored, limit) ==
  LET lim == IF limit > Len(stored) THEN Len(stored) ELSE limit
      startIdx == Len(stored) - lim
  IN  IF startIdx > Len(stored)
      THEN [panic |-> TRUE, result |-> <<>>]
      ELSE [panic |-> FALSE, result |-> SubSeq(stored, startIdx + 1, Len(stored))]

\* Mutant of FirstValidIdx: the loop has no break, so the index of the last
\* entry that is After(expiredTime) is kept.
RECURSIVE FirstValidIdx_NoBreak(_, _, _)
FirstValidIdx_NoBreak(stored, expiredTime, i) ==
  IF i > Len(stored) THEN 0
  ELSE LET rest == FirstValidIdx_NoBreak(stored, expiredTime, i + 1)
       IN  IF rest > 0 THEN rest
           ELSE IF stored[i].Timestamp > expiredTime THEN i - 1
           ELSE 0

\* The loop of CleanExpired: the index (0-based) of the first entry whose
\* Timestamp is After(expiredTime), scanning from index i; 0 when there is none.
RECURSIVE FirstValidIdx(_, _, _)
FirstValidIdx(stored, expiredTime, i) ==
  IF i > Len(stored) THEN 0
  ELSE IF stored[i].Timestamp > expiredTime THEN i - 1
  ELSE FirstValidIdx(stored, expiredTime, i + 1)

\* Mutant of CleanExpiredOp: one sweep drops only the oldest expired entry.
CleanExpiredOp_DropHead(stored, nowNanos) ==
  IF stored # <<>> /\ ~(stored[1].Timestamp > nowNanos - expireTime)
  THEN Tail(stored) ELSE stored

\* Mutant of CleanExpiredOp: everything up to the last expired entry is cut,
\* as if the store were ordered by timestamp.
CleanExpiredOp_UpToLastExpired(stored, nowNanos) ==
  LET expired == { i \in 1..Len(stored) : ~(stored[i].Timestamp > nowNanos - expireTime) }
      lastExpired == IF expired = {} THEN 0
                     ELSE CHOOSE i \in expired : \A j \in expired : j <= i
  IN  SubSeq(stored, lastExpired + 1, Len(stored))

\* CleanExpired at wall-clock time nowNanos.
CleanExpiredOp(stored, nowNanos) ==
  LET expiredTime == nowNanos - expireTime
      firstValidIdx == FirstValidIdx(stored, expiredTime, 1)
  IN  IF firstValidIdx > 0
      THEN SubSeq(stored, firstValidIdx + 1, Len(stored))
      ELSE stored

\* --------------------------------------------------------------- the wire

\* The frame-size ceiling of handleUniStream: 10*1024*1024.
MaxFrameSize == 10485760

\* A stream's bytes are kept as runs [b, n]: n copies of byte b. A literal
\* byte sequence is a sequence of runs of one.
Run(b, n) == [b |-> b, n |-> n]
Lit(bytes) == [i \in 1..Len(bytes) |-> Run(bytes[i], 1)]

RECURSIVE ByteLen(_)
ByteLen(runs) ==
  IF runs = <<>> THEN 0 ELSE Head(runs).n + ByteLen(Tail(runs))

\* The first k bytes of runs (all of them when there are fewer).
RECURSIVE TakeBytes(_, _)
TakeBytes(runs, k) ==
  IF k = 0 \/ runs = <<>> THEN <<>>
  ELSE IF Head(runs).n <= k
       THEN <<Head(runs)>> \o TakeBytes(Tail(runs), k - Head(runs).n)
       ELSE <<Run(Head(runs).b, k)>>

\* runs without its first k bytes.
RECURSIVE DropBytes(_, _)
DropBytes(runs, k) ==
  IF k = 0 \/ runs = <<>> THEN runs
  ELSE IF Head(runs).n <= k
       THEN DropBytes(Tail(runs), k - Head(runs).n)
       ELSE <<Run(Head(runs).b, Head(runs).n - k)>> \o Tail(runs)

\* The plain byte sequence of a short run sequence.
RECURSIVE Expand(_)
Expand(runs) ==
  IF runs = <<>> THEN <<>>
  ELSE [i \in 1..Head(runs).n |-> Head(runs).b] \o Expand(Tail(runs))

\* binary.BigEndian.Uint32 of four bytes.
BigEndianUint32(b) == b[1] * 16777216 + b[2] * 65536 + b[3] * 256 + b[4]

\* The sender's side of the prefix: n as four big-endian bytes.
PutUint32(n) ==
  << n \div 16777216, (n \div 65536) % 256, (n \div 256) % 256, n % 256 >>

\* The message encoding of pkg/protocol, reduced to what the handler depends
\* on: a payload decodes as a batch request, as a single metric, as both (the
\* empty payload: every field at its default) or as neither. A metric is a
\* tag byte and three field bytes; a batch request is a tag byte, the agent
\* byte and three field bytes per entry.
TagMetric == 1
TagBatch == 2

NameOfByte(b) == IF b = 0 THEN "" ELSE "cpu"
ByteOfName(name) == IF name = "" THEN 0 ELSE 1
AgentOfByte(b) == CASE b = 1 -> "a1" [] b = 2 -> "a2" [] OTHER -> ""
ByteOfAgent(a) == CASE a = "a1" -> 1 [] a = "a2" -> 2 [] OTHER -> 0

RawMetric(name, ts, type) == [Name |-> name, Timestamp |-> ts, Type |-> type]

MarshalMetric(m) == <<TagMetric, ByteOfName(m.Name), m.Timestamp, m.Type>>

RECURSIVE MarshalEntries(_)
MarshalEntries(ms) ==
  IF ms = <<>> THEN <<>>
  ELSE <<ByteOfName(Head(ms).Name), Head(ms).Timestamp, Head(ms).Type>>
       \o MarshalEntries(Tail(ms))

MarshalBatch(req) ==
  <<TagBatch, ByteOfAgent(req.AgentId)>> \o MarshalEntries(req.Metrics)

\* Only runs of one are an encoding of anything.
IsLiteral(data) == \A i \in 1..Len(data) : data[i].n = 1

\* proto.Unmarshal(data, &batchReq)
UnmarshalBatch(data) ==
  IF ~IsLiteral(data) THEN [ok |-> FALSE]
  ELSE LET d == Expand(data)
       IN  IF d = <<>>
           THEN [ok |-> TRUE, req |-> [AgentId |-> "", Metrics |-> <<>>]]
           ELSE IF Len(d) >= 2 /\ d[1] = TagBatch /\ (Len(d) - 2) % 3 = 0
           THEN [ok |-> TRUE,
                 req |-> [AgentId |-> AgentOfByte(d[2]),
                          Metrics |-> [i \in 1..((Len(d) - 2) \div 3) |->
                                         RawMetric(NameOfByte(d[3 * i]),
                                                   d[3 * i + 1], d[3 * i + 2])]]]
           ELSE [ok |-> FALSE]

\* proto.Unmarshal(data, &metric)
UnmarshalMetric(data) ==
  IF ~IsLiteral(data) THEN [ok |-> FALSE]
  ELSE LET d == Expand(data)
       IN  IF d = <<>>
           THEN [ok |-> TRUE, metric |-> RawMetric("", 0, 0)]
           ELSE IF Len(d) = 4 /\ d[1] = TagMetric
           THEN [ok |-> TRUE, metric |-> RawMetric(NameOfByte(d[2]), d[3], d[4])]
           ELSE [ok |-> FALSE]

\* ------------------------------------------------------------------- state

VARIABLES
  metrics,     \* MemoryStorage.metrics
  now,         \* the wall clock read by time.Now(), in milliseconds
  inserted,    \* history: every sample SaveMetrics has appended, in order
  last,        \* the last call on the Storage interface and what it returned
  mu,          \* MemoryStorage.mu and the calls that hold it or are under way
  mem,         \* the arrays behind s.metrics, its slice header, the slices returned
  conn,        \* per connection: "none", "open" (handleConnection accepting), "closed"
  streamConn,  \* per stream: the connection that accepted it
  pc,          \* per stream: where its handleUniStream goroutine is
  buf,         \* per stream: bytes received and not yet read, as runs
  fin,         \* per stream: the peer has closed its sending side
  length,      \* per stream: the length parsed from the last prefix
  logs,        \* per stream: log lines written, by kind, and samples saved
  handled,     \* per stream: history of the frames its handler interpreted
  sent,        \* frames the agents have sent so far
  crashed      \* the process died of an unrecovered panic

storeVars == <<metrics, now, inserted, last, mu, mem>>
streamVars == <<conn, streamConn, pc, buf, fin, length, logs, handled, sent, crashed>>
vars == <<metrics, now, inserted, last, mu, mem,
          conn, streamConn, pc, buf, fin, length, logs, handled, sent, crashed>>

NoCall == [op |-> "none"]

\* The callers of SaveMetrics and of the queries whose steps are followed one
\* by one.
Writers == {1, 2}
Readers == {1}

\* s.mu with no holder: every writer outside SaveMetrics, no reader inside.
\* step[w] is where writer w is in SaveMetrics, new[w] the slice it was given,
\* before[w] the store as it was when w took the lock.
Unlocked ==
  [step |-> [w \in Writers |-> "idle"],
   new |-> [w \in Writers |-> <<>>],
   before |-> [w \in Writers |-> <<>>],
   readers |-> {}]

\* The raw metrics the store-level specifications normalise and write.
ValidRawMetrics ==
  { RawMetric("cpu", ts, type) : ts \in 1..2,
                                 type \in {MetricType_CPU_USAGE, MetricType_EBPF_RAW} }

AgentIDs == {"a1", "a2"}

\* Every normalised sample of the model's agents and valid raw metrics.
SampleSet ==
  { ProcessSingleMetric(a, m).metric : a \in AgentIDs, m \in ValidRawMetrics }

\* The samples StoreSpec writes: both agents, both timestamps.
WrittenSet == { x \in SampleSet : x.RawType = MetricType_CPU_USAGE }

\* All sequences over S of length at most n.
SeqsUpTo(S, n) == UNION { [1..k -> S] : k \in 0..n }

\* A slice header: the array it points into, the offset of its first cell
\* (0-based), its length and its capacity.
SliceHeader(arr, off, len, cap) == [arr |-> arr, off |-> off, len |-> len, cap |-> cap]

\* The zero value of ProcessedMetric, which make() fills fresh cells with.
ZeroMetric == [AgentID |-> "", Timestamp |-> 0, Name |-> "", Type |-> "", RawType |-> 0]

\* Memory after NewMemoryStorage: make([]ProcessedMetric, 0, maxSize), and no
\* result handed out yet.
NewMem ==
  [arrays |-> << [i \in 1..maxSize |-> ZeroMetric] >>,
   hdr |-> SliceHeader(1, 0, 0, maxSize),
   results |-> <<>>]

StoreInit ==
  /\ metrics = <<>>
  /\ now = 1
  /\ inserted = <<>>
  /\ last = NoCall
  /\ mu = Unlocked
  /\ mem = NewMem

\* A writer calls SaveMetrics(new).
SaveMetrics(new) ==
  /\ metrics' = SaveMetricsOp(metrics, new)
  /\ inserted' = inserted \o new
  /\ last' = [op |-> "SaveMetrics", n |-> Len(new), total |-> Len(metrics'),
              deleted |-> Len(metrics) + Len(new) - Len(metrics')]
  /\ UNCHANGED <<now, mu, mem>>

\* The cleanup ticker fires: CleanExpired().
CleanExpired ==
  /\ metrics' = CleanExpiredOp(metrics, UnixMilli(now))
  /\ last' = [op |-> "CleanExpired", cleaned |-> Len(metrics) - Len(metrics')]
  /\ UNCHANGED <<now, inserted, mu, mem>>

\* Wall-clock time passes.
Tick ==
  /\ now < MaxNow
  /\ now' = now + 1
  /\ UNCHANGED <<metrics, inserted, last, mu, mem>>

\* ---------------------------------------------------------------- ingestion

Conns == {1}
Streams == {1, 2}

\* Frames the agents send over all streams in one run.
MaxFrames == 3

\* What the agents put on the wire.
v1 == RawMetric("cpu", 1, MetricType_CPU_USAGE)
v2 == RawMetric("cpu", 2, MetricType_EBPF_RAW)
eName == RawMetric("", 1, MetricType_CPU_USAGE)
eTimestamp == RawMetric("cpu", 0, MetricType_CPU_USAGE)
eType == RawMetric("cpu", 1, MetricType_EBPF_RAW + 1)

SingleMetrics == {v1, eName, eTimestamp, eType}
BatchRequests ==
  { [AgentId |-> "a1", Metrics |-> ms] : ms \in {<<v1, v2>>, <<eName, v2>>} }
UndecodablePayload == <<9>>

\* A well-formed frame: the payload's length, then the payload.
Frame(payload) == Lit(PutUint32(ByteLen(payload))) \o payload

\* A prefix over the ceiling, with the bytes of a valid frame behind it.
OversizeFrame == Lit(PutUint32(MaxFrameSize + 1)) \o Lit(MarshalMetric(v1))
\* A frame of exactly the ceiling: 10 MiB of zero bytes.
MaxSizeFrame == Lit(PutUint32(MaxFrameSize)) \o <<Run(0, MaxFrameSize)>>
\* A frame cut short: the prefix announces four bytes and one arrives.
TruncatedFrame == Lit(PutUint32(4)) \o Lit(<<TagMetric>>)

AgentFrames ==
  { Frame(Lit(MarshalMetric(m))) : m \in SingleMetrics }
  \cup { Frame(Lit(MarshalBatch(r))) : r \in BatchRequests }
  \cup { Frame(Lit(UndecodablePayload)), Frame(<<>>),
         OversizeFrame, MaxSizeFrame, TruncatedFrame }

NoLogs == [decode |-> 0, validation |-> 0, saved |-> 0]

Init ==
  /\ StoreInit
  /\ conn = [c \in Conns |-> "none"]
  /\ streamConn = [s \in Streams |-> 0]
  /\ pc = [s \in Streams |-> "unopened"]
  /\ buf = [s \in Streams |-> <<>>]
  /\ fin = [s \in Streams |-> FALSE]
  /\ length = [s \in Streams |-> 0]
  /\ logs = [s \in Streams |-> NoLogs]
  /\ handled = [s \in Streams |-> <<>>]
  /\ sent = 0
  /\ crashed = FALSE

\* main's accept loop: listener.Accept succeeds, go handleConnection(conn).
\* Connections are numbered in the order they are accepted.
AcceptConn(c) ==
  /\ ~crashed
  /\ conn[c] = "none"
  /\ \A d \in Conns : d < c => conn[d] # "none"
  /\ conn' = [conn EXCEPT ![c] = "open"]
  /\ UNCHANGED <<storeVars, streamConn, pc, buf, fin, length, logs, handled, sent, crashed>>

\* handleConnection: AcceptUniStream succeeds, go handleUniStream(stream).
\* Streams are numbered in the order they are accepted.
AcceptUniStream(c, s) ==
  /\ ~crashed
  /\ conn[c] = "open"
  /\ pc[s] = "unopened"
  /\ \A t \in Streams : t < s => pc[t] # "unopened"
  /\ pc' = [pc EXCEPT ![s] = "ReadingLength"]
  /\ streamConn' = [streamConn EXCEPT ![s] = c]
  /\ UNCHANGED <<storeVars, conn, buf, fin, length, logs, handled, sent, crashed>>

\* handleConnection: AcceptUniStream fails once the peer, done with its
\* streams, has closed the connection; the handler returns.
AcceptUniStreamFail(c) ==
  /\ ~crashed
  /\ conn[c] = "open"
  /\ \A s \in Streams : streamConn[s] = c => pc[s] \in {"ClosedClean", "ClosedError"}
  /\ conn' = [conn EXCEPT ![c] = "closed"]
  /\ UNCHANGED <<storeVars, streamConn, pc, buf, fin, length, logs, handled, sent, crashed>>

\* An agent writes one frame to a stream whose reader waits for a prefix.
Send(s, frame) ==
  /\ ~crashed
  /\ pc[s] = "ReadingLength"
  /\ ~fin[s]
  /\ buf[s] = <<>>
  /\ sent < MaxFrames
  /\ buf' = [buf EXCEPT ![s] = frame]
  /\ sent' = sent + 1
  /\ UNCHANGED <<storeVars, conn, streamConn, pc, fin, length, logs, handled, crashed>>

\* An agent closes its stream; the reader, blocked in io.ReadFull, sees the end
\* of the stream after the bytes sent before it.
CloseStream(s) ==
  /\ ~crashed
  /\ ~fin[s]
  /\ \/ pc[s] = "ReadingLength" /\ buf[s] = <<>>
     \/ pc[s] = "ReadingPayload" /\ ByteLen(buf[s]) < length[s]
  /\ fin' = [fin EXCEPT ![s] = TRUE]
  /\ UNCHANGED <<storeVars, conn, streamConn, pc, buf, length, logs, handled, sent, crashed>>

\* Mutant of TooLarge: a frame of exactly the ceiling is refused as well.
TooLarge_Inclusive(len) == len >= MaxFrameSize

\* The size check of handleUniStream.
TooLarge(len) == len > MaxFrameSize

\* handleUniStream, from the top of the loop to the end of the size check:
\* io.ReadFull of the 4-byte prefix returns.
ReadLength(s) ==
  /\ ~crashed
  /\ pc[s] = "ReadingLength"
  /\ ByteLen(buf[s]) >= 4 \/ fin[s]
  /\ IF ByteLen(buf[s]) >= 4
     THEN LET lengthBuf == Expand(TakeBytes(buf[s], 4))
              len == BigEndianUint32(lengthBuf)
          IN  /\ buf' = [buf EXCEPT ![s] = DropBytes(buf[s], 4)]
              /\ length' = [length EXCEPT ![s] = len]
              /\ pc' = [pc EXCEPT ![s] =
                          IF TooLarge(len) THEN "ClosedError"
                          ELSE "ReadingPayload"]
     ELSE /\ buf' = [buf EXCEPT ![s] = <<>>]
          /\ pc' = [pc EXCEPT ![s] =
                      IF buf[s] = <<>> THEN "ClosedClean"
                      ELSE "ClosedError"]
          /\ UNCHANGED length
  /\ UNCHANGED <<storeVars, conn, streamConn, fin, logs, handled, sent, crashed>>

\* handleUniStream: io.ReadFull of the payload fails.
ReadPayloadFail(s) ==
  /\ ~crashed
  /\ pc[s] = "ReadingPayload"
  /\ ByteLen(buf[s]) < length[s]
  /\ fin[s]
  /\ buf' = [buf EXCEPT ![s] = <<>>]
  /\ pc' = [pc EXCEPT ![s] = "ClosedError"]
  /\ UNCHANGED <<storeVars, conn, streamConn, fin, length, logs, handled, sent, crashed>>

\* handleUniStream, from the payload read to the end of the loop body, when
\* the payload decodes as a BatchMetricsRequest.
HandleBatch(s, req) ==
  LET r == ProcessBatchRequest(req)
  IN  /\ SaveMetrics(r.processedMetrics)
      /\ logs' = [logs EXCEPT ![s].validation = @ + r.failures,
                              ![s].saved = @ + Len(r.processedMetrics)]
      /\ handled' = [handled EXCEPT ![s] = Append(@, [kind |-> "batch", len |-> length[s]])]
      /\ pc' = [pc EXCEPT ![s] = "ReadingLength"]
      /\ UNCHANGED crashed

\* Mutant of HandleUndecodable: the handler returns instead of continuing.
HandleUndecodable_Return(s) ==
  /\ logs' = [logs EXCEPT ![s].decode = @ + 1]
  /\ handled' = [handled EXCEPT ![s] = Append(@, [kind |-> "undecodable", len |-> length[s]])]
  /\ pc' = [pc EXCEPT ![s] = "ClosedError"]
  /\ UNCHANGED <<storeVars, crashed>>

\* ... when it decodes as neither message: the raw bytes are logged.
HandleUndecodable(s) ==
  /\ logs' = [logs EXCEPT ![s].decode = @ + 1]
  /\ handled' = [handled EXCEPT ![s] = Append(@, [kind |-> "undecodable", len |-> length[s]])]
  /\ pc' = [pc EXCEPT ![s] = "ReadingLength"]
  /\ UNCHANGED <<storeVars, crashed>>

\* Mutant of HandleSingle: the error of ProcessSingleMetric is logged and the
\* sample is converted and saved all the same.
HandleSingle_SaveAnyway(s, metric) ==
  LET r == ProcessSingleMetric("", metric)
      converted == [AgentID   |-> "",
                    Timestamp |-> UnixMilli(metric.Timestamp),
                    Name      |-> metric.Name,
                    Type      |-> MetricTypeString(metric.Type),
                    RawType   |-> metric.Type]
  IN  /\ SaveMetrics(<<converted>>)
      /\ logs' = [logs EXCEPT ![s].validation = @ + (IF r.isNil THEN 1 ELSE 0),
                              ![s].saved = @ + 1]
      /\ handled' = [handled EXCEPT ![s] =
                       Append(@, [kind |-> IF r.isNil THEN "invalid" ELSE "single",
                                  len |-> length[s]])]
      /\ pc' = [pc EXCEPT ![s] = "ReadingLength"]
      /\ UNCHANGED crashed

\* ... when it decodes as a single Metric: ProcessSingleMetric, then
\* SaveMetrics([]ProcessedMetric{*processedMetric}). On a validation error the
\* pointer is nil and dereferencing it panics; nothing recovers the panic.
HandleSingle(s, metric) ==
  LET r == ProcessSingleMetric("", metric)
  IN  IF r.isNil
      THEN /\ logs' = [logs EXCEPT ![s].validation = @ + 1]
           /\ handled' = [handled EXCEPT ![s] = Append(@, [kind |-> "invalid", len |-> length[s]])]
           /\ pc' = [pc EXCEPT ![s] = "Panicked"]
           /\ crashed' = TRUE
           /\ UNCHANGED storeVars
      ELSE /\ SaveMetrics(<<r.metric>>)
           /\ logs' = [logs EXCEPT ![s].saved = @ + 1]
           /\ handled' = [handled EXCEPT ![s] = Append(@, [kind |-> "single", len |-> length[s]])]
           /\ pc' = [pc EXCEPT ![s] = "ReadingLength"]
           /\ UNCHANGED crashed

\* Mutant of ReadPayload: the single-metric decode is tried first.
ReadPayload_SingleFirst(s) ==
  /\ ~crashed
  /\ pc[s] = "ReadingPayload"
  /\ ByteLen(buf[s]) >= length[s]
  /\ LET data == TakeBytes(buf[s], length[s])
         batch == UnmarshalBatch(data)
         single == UnmarshalMetric(data)
     IN  /\ buf' = [buf EXCEPT ![s] = DropBytes(buf[s], length[s])]
         /\ IF single.ok THEN HandleSingle(s, single.metric)
            ELSE IF batch.ok THEN HandleBatch(s, batch.req)
            ELSE HandleUndecodable(s)
  /\ UNCHANGED <<conn, streamConn, fin, length, sent>>

\* handleUniStream, from the payload read to the end of the loop body: the
\* batch decode is tried first, the single-metric decode only when it fails.
ReadPayload(s) ==
  /\ ~crashed
  /\ pc[s] = "ReadingPayload"
  /\ ByteLen(buf[s]) >= length[s]
  /\ LET data == TakeBytes(buf[s], length[s])
         batch == UnmarshalBatch(data)
         single == UnmarshalMetric(data)
     IN  /\ buf' = [buf EXCEPT ![s] = DropBytes(buf[s], length[s])]
         /\ IF batch.ok THEN HandleBatch(s, batch.req)
            ELSE IF single.ok THEN HandleSingle(s, single.metric)
            ELSE HandleUndecodable(s)
  /\ UNCHANGED <<conn, streamConn, fin, length, sent>>

\* The sweeper and the clock, while the process lives.
Sweep == ~crashed /\ CleanExpired /\ UNCHANGED streamVars
Clock == ~crashed /\ Tick /\ UNCHANGED streamVars

Next ==
  \/ \E c \in Conns : AcceptConn(c)
  \/ \E c \in Conns, s \in Streams : AcceptUniStream(c, s)
  \/ \E c \in Conns : AcceptUniStreamFail(c)
  \/ \E s \in Streams, f \in AgentFrames : Send(s, f)
  \/ \E s \in Streams : CloseStream(s)
  \/ \E s \in Streams : ReadLength(s)
  \/ \E s \in Streams : ReadPayloadFail(s)
  \/ \E s \in Streams : ReadPayload(s)
  \/ Sweep
  \/ Clock

Spec == Init /\ [][Next]_vars

\* ------------------------------------------------------ the store on its own

\* Writers, the sweeper and the clock, with no stream in the way.
StoreWrite ==
  \E new \in SeqsUpTo(WrittenSet, MaxBatch) :
    /\ Len(inserted) + Len(new) <= MaxInserted
    /\ SaveMetrics(new)
    /\ UNCHANGED streamVars

StoreNext ==
  \/ StoreWrite
  \/ Sweep
  \/ Clock

StoreSpec == Init /\ [][StoreNext]_vars

\* ------------------------------------------------------ int64 arithmetic

\* An int64 is kept as its eight bytes, least significant first, in two's
\* complement, so that a product wraps as the machine's does.
Int64Bytes == 8

Digit(x, i) == IF i <= Len(x) THEN x[i] ELSE 0

\* The sum of the byte products that fall on byte k of a * b.
RECURSIVE ColumnSum(_, _, _, _)
ColumnSum(a, b, k, i) ==
  IF i > k THEN 0
  ELSE Digit(a, i) * Digit(b, k - i + 1) + ColumnSum(a, b, k, i + 1)

\* Bytes k..n of a * b, given the carry into byte k.
RECURSIVE MulFrom(_, _, _, _, _)
MulFrom(a, b, k, n, carry) ==
  IF k > n THEN <<>>
  ELSE LET s == ColumnSum(a, b, k, 1) + carry
       IN  <<s % 256>> \o MulFrom(a, b, k + 1, n, s \div 256)

\* a * b on int64 operands a, b >= 0: the low eight bytes of the product.
MulInt64(a, b) == MulFrom(a, b, 1, Int64Bytes, 0)

Negative64(x) == x[Int64Bytes] >= 128
Positive64(x) == ~Negative64(x) /\ \E i \in 1..Int64Bytes : x[i] # 0

\* a < b on int64 values.
Less64(a, b) ==
  IF Negative64(a) # Negative64(b) THEN Negative64(a)
  ELSE \E i \in 1..Int64Bytes :
         /\ a[i] < b[i]
         /\ \A j \in (i + 1)..Int64Bytes : a[j] = b[j]

\* int64(time.Millisecond) = 1000000 = 0x0F4240.
Millisecond64 == <<64, 66, 15, 0, 0, 0, 0, 0>>

\* ProcessSingleMetric's timestamp for a wire timestamp that passed
\* validation: time.Unix(0, metric.Timestamp*int64(time.Millisecond)), as its
\* UnixNano.
UnixNano64(timestamp) == MulInt64(timestamp, Millisecond64)

\* ------------------------------------------------- the processor, alone

\* The raw metrics and agent ids a caller hands to ProcessSingleMetric: names
\* empty or not, timestamps around zero, types around the enum's range.
RawNames == {"", "cpu"}
RawTimestamps == (0 - 1)..2
RawTypes == (MetricType_CPU_USAGE - 1)..(MetricType_EBPF_RAW + 1)
CallerAgentIDs == AgentIDs \cup {""}

Process(agentID, metric) ==
  /\ last' = [op |-> "ProcessSingleMetric", agentID |-> agentID, metric |-> metric,
              ret |-> ProcessSingleMetric(agentID, metric)]
  /\ UNCHANGED <<metrics, now, inserted, mu, mem, streamVars>>

\* Wire timestamps over the whole int64 range: the low byte is 0, 1 or 255,
\* the top byte 0 or 127, every other byte 0 or 255.
WireTimestamps64 ==
  { <<b1, b2, b3, b4, b5, b6, b7, b8>> :
      b1 \in {0, 1, 255}, b2 \in {0, 255}, b3 \in {0, 255}, b4 \in {0, 255},
      b5 \in {0, 255}, b6 \in {0, 255}, b7 \in {0, 255}, b8 \in {0, 127} }

\* ProcessSingleMetric on a metric whose timestamp is t, as far as the
\* timestamp goes: the check of validateMetric, then the conversion.
ProcessTimestamp(t) ==
  /\ last' = [op |-> "UnixNano", wire |-> t,
              valid |-> Positive64(t),
              nanos |-> IF Positive64(t) THEN UnixNano64(t) ELSE t]
  /\ UNCHANGED <<metrics, now, inserted, mu, mem, streamVars>>

ProcessNext ==
  \/ \E a \in CallerAgentIDs, n \in RawNames, ts \in RawTimestamps, t \in RawTypes :
       Process(a, RawMetric(n, ts, t))
  \/ \E t \in WireTimestamps64 : ProcessTimestamp(t)

ProcessSpec == Init /\ [][ProcessNext]_vars

\* ------------------------------------------------ the store, step by step

\* Mutant of CanLock: the writer does not wait for the lock.
CanLock_NoWait == TRUE

\* s.mu.Lock() returns once no writer and no reader holds the lock.
CanLock == (\A w \in Writers : mu.step[w] = "idle") /\ mu.readers = {}

\* s.mu.RLock() returns once no writer holds the lock.
CanRLock == \A w \in Writers : mu.step[w] = "idle"

\* Writer 1 saves slices of two samples, writer 2 slices of one; a writer's
\* samples carry its agent id, and the k-th slice it saves the timestamp k.
AgentOfWriter(w) == IF w = 1 THEN "a1" ELSE "a2"
WriterBatch(w, k) ==
  IF w = 1
  THEN << ProcessSingleMetric("a1", RawMetric("cpu", k, MetricType_CPU_USAGE)).metric,
          ProcessSingleMetric("a1", RawMetric("cpu", k, MetricType_EBPF_RAW)).metric >>
  ELSE << ProcessSingleMetric("a2", RawMetric("cpu", k, MetricType_EBPF_RAW)).metric >>

\* The slices writer w has appended so far.
BatchesWritten(w) ==
  Len(SelectSeq(inserted, LAMBDA x : x.AgentID = AgentOfWriter(w)))
    \div Len(WriterBatch(w, 1))

\* SaveMetrics: s.mu.Lock() returns.
WriterLock(w) ==
  /\ mu.step[w] = "idle"
  /\ CanLock
  /\ BatchesWritten(w) < 2
  /\ mu' = [mu EXCEPT !.step[w] = "locked",
                      !.new[w] = WriterBatch(w, BatchesWritten(w) + 1),
                      !.before[w] = metrics]
  /\ UNCHANGED <<metrics, now, inserted, last, mem, streamVars>>

\* SaveMetrics: s.metrics = append(s.metrics, metrics...).
WriterAppend(w) ==
  /\ mu.step[w] = "locked"
  /\ metrics' = metrics \o mu.new[w]
  /\ inserted' = inserted \o mu.new[w]
  /\ mu' = [mu EXCEPT !.step[w] = "appended"]
  /\ UNCHANGED <<now, last, mem, streamVars>>

\* SaveMetrics: the size check and the cut, the log line, and the deferred
\* s.mu.Unlock().
WriterTrimUnlock(w) ==
  /\ mu.step[w] = "appended"
  /\ metrics' = IF Len(metrics) > maxSize
                THEN SubSeq(metrics, Len(metrics) - maxSize + 1, Len(metrics))
                ELSE metrics
  /\ last' = [op |-> "SaveMetrics", n |-> Len(mu.new[w]), total |-> Len(metrics'),
              deleted |-> Len(metrics) - Len(metrics')]
  /\ mu' = [mu EXCEPT !.step[w] = "idle", !.new[w] = <<>>, !.before[w] = <<>>]
  /\ UNCHANGED <<now, inserted, mem, streamVars>>

\* GetLatestMetrics: s.mu.RLock() returns.
ReaderRLock(r) ==
  /\ r \notin mu.readers
  /\ CanRLock
  /\ mu' = [mu EXCEPT !.readers = @ \cup {r}]
  /\ UNCHANGED <<metrics, now, inserted, last, mem, streamVars>>

\* GetLatestMetrics: the body, for a limit above the size, and the deferred
\* s.mu.RUnlock().
ReaderReadUnlock(r) ==
  /\ r \in mu.readers
  /\ last' = [op |-> "GetLatestMetrics", limit |-> maxSize + 1,
              ret |-> GetLatestMetrics(metrics, maxSize + 1)]
  /\ mu' = [mu EXCEPT !.readers = @ \ {r}]
  /\ UNCHANGED <<metrics, now, inserted, mem, streamVars>>

\* CleanExpired: s.mu.Lock() returns, the body runs, the lock is released.
SweeperLocked == CanLock /\ Sweep

LockNext ==
  \/ \E w \in Writers : WriterLock(w)
  \/ \E w \in Writers : WriterAppend(w)
  \/ \E w \in Writers : WriterTrimUnlock(w)
  \/ \E r \in Readers : ReaderRLock(r)
  \/ \E r \in Readers : ReaderReadUnlock(r)
  \/ SweeperLocked
  \/ Clock

LockSpec == Init /\ [][LockNext]_vars

\* ------------------------------------------------ the store, cell by cell

\* Results of GetLatestMetrics that are followed after they were returned.
MaxResults == 1
\* Cells the allocator may add to a grown array when it rounds the size up.
MaxRoundUp == 0

\* The elements a slice shows: cells off+1 .. off+len of its array.
View(arrays, h) == [i \in 1..h.len |-> arrays[h.arr][h.off + i]]

\* s[k:]
ReSlice(h, k) == SliceHeader(h.arr, h.off + k, h.len - k, h.cap - k)

\* The capacities append may give a slice of capacity oldCap that must hold
\* needed elements: double the old one, or needed when that is more, rounded
\* up by the allocator.
GrowCaps(oldCap, needed) ==
  LET newCap == IF needed > 2 * oldCap THEN needed ELSE 2 * oldCap
  IN  newCap..(newCap + MaxRoundUp)

\* append(s, new...): within the capacity the new elements go into the cells
\* behind the slice's last; beyond it a new array of capacity newCap gets the
\* slice's elements and the new ones.
AppendSlice(arrays, h, new, newCap) ==
  IF h.len + Len(new) <= h.cap
  THEN [arrays |-> [arrays EXCEPT ![h.arr] =
                      [i \in 1..Len(arrays[h.arr]) |->
                         IF i > h.off + h.len /\ i <= h.off + h.len + Len(new)
                         THEN new[i - h.off - h.len]
                         ELSE arrays[h.arr][i]]],
        hdr |-> SliceHeader(h.arr, h.off, h.len + Len(new), h.cap)]
  ELSE [arrays |-> Append(arrays,
                          [i \in 1..newCap |->
                             IF i <= h.len THEN arrays[h.arr][h.off + i]
                             ELSE IF i <= h.len + Len(new) THEN new[i - h.len]
                             ELSE ZeroMetric]),
        hdr |-> SliceHeader(Len(arrays) + 1, 0, h.len + Len(new), newCap)]

\* Mutant of TrimFront: the surviving elements are copied down to the front
\* of the slice, in place.
TrimFront_Compact(arrays, h, deleteCount) ==
  [arrays |-> [arrays EXCEPT ![h.arr] =
                 [i \in 1..Len(arrays[h.arr]) |->
                    IF i > h.off /\ i <= h.off + h.len - deleteCount
                    THEN arrays[h.arr][i + deleteCount]
                    ELSE arrays[h.arr][i]]],
   hdr |-> SliceHeader(h.arr, h.off, h.len - deleteCount, h.cap)]

\* s.metrics = s.metrics[deleteCount:]: no cell is written.
TrimFront(arrays, h, deleteCount) ==
  [arrays |-> arrays, hdr |-> ReSlice(h, deleteCount)]

\* SaveMetrics, on the memory.
SliceSave(new) ==
  \E newCap \in GrowCaps(mem.hdr.cap, mem.hdr.len + Len(new)) :
    LET a == AppendSlice(mem.arrays, mem.hdr, new, newCap)
        t == IF a.hdr.len > maxSize
             THEN TrimFront(a.arrays, a.hdr, a.hdr.len - maxSize)
             ELSE a
    IN  /\ Len(inserted) + Len(new) <= MaxInserted
        /\ mem' = [mem EXCEPT !.arrays = t.arrays, !.hdr = t.hdr]
        /\ metrics' = View(t.arrays, t.hdr)
        /\ inserted' = inserted \o new
        /\ last' = [op |-> "SaveMetrics", n |-> Len(new), total |-> t.hdr.len,
                    deleted |-> a.hdr.len - t.hdr.len]
        /\ UNCHANGED <<now, mu, streamVars>>

\* CleanExpired, on the memory.
SliceSweep ==
  LET stored == View(mem.arrays, mem.hdr)
      firstValidIdx == FirstValidIdx(stored, UnixMilli(now) - expireTime, 1)
      t == IF firstValidIdx > 0
           THEN TrimFront(mem.arrays, mem.hdr, firstValidIdx)
           ELSE [arrays |-> mem.arrays, hdr |-> mem.hdr]
  IN  /\ mem' = [mem EXCEPT !.arrays = t.arrays, !.hdr = t.hdr]
      /\ metrics' = View(t.arrays, t.hdr)
      /\ last' = [op |-> "CleanExpired", cleaned |-> mem.hdr.len - t.hdr.len]
      /\ UNCHANGED <<now, inserted, mu, streamVars>>

\* GetLatestMetrics, on the memory, for a limit that is a count: the result is
\* the slice s.metrics[startIdx:], handed to the caller as it is; seen is what
\* the caller read in it on return.
SliceLatest(limit) ==
  LET lim == IF limit > mem.hdr.len THEN mem.hdr.len ELSE limit
      startIdx == mem.hdr.len - lim
      result == ReSlice(mem.hdr, startIdx)
  IN  /\ Len(mem.results) < MaxResults
      /\ mem' = [mem EXCEPT !.results =
                   Append(@, [slice |-> result, seen |-> View(mem.arrays, result)])]
      /\ last' = [op |-> "GetLatestMetrics", limit |-> limit,
                  ret |-> [panic |-> FALSE, result |-> View(mem.arrays, result)]]
      /\ UNCHANGED <<metrics, now, inserted, mu, streamVars>>

\* The samples written here: one agent's, with both timestamps.
SliceSamples == { x \in WrittenSet : x.AgentID = "a1" }

SliceNext ==
  \/ \E new \in SeqsUpTo(SliceSamples, MaxBatch) \ {<<>>} : SliceSave(new)
  \/ SliceSweep
  \/ \E limit \in 1..MaxLimit : SliceLatest(limit)
  \/ Clock

SliceSpec == Init /\ [][SliceNext]_vars

\* ------------------------------------------------- the sweeper, running on

\* seq's timestamps never go down from one entry to the next.
NonDecreasing(seq) ==
  \A i \in 1..(Len(seq) - 1) : seq[i].Timestamp <= seq[i + 1].Timestamp

\* A writer whose samples arrive in timestamp order.
OrderedWrite ==
  \E new \in SeqsUpTo(WrittenSet, MaxBatch) :
    /\ Len(inserted) + Len(new) <= MaxInserted
    /\ NonDecreasing(inserted \o new)
    /\ SaveMetrics(new)
    /\ UNCHANGED streamVars

SweeperNext ==
  \/ OrderedWrite
  \/ Sweep
  \/ Clock

\* startCleanupTimer's ticker fires for as long as the process lives, and time
\* passes; writers may stop for good.
SweeperSpec ==
  Init /\ [][SweeperNext]_vars /\ WF_vars(Sweep) /\ WF_vars(Clock)

\* ------------------------------------------------------- pipelined streams

\* Each stream's agent writes its frames back to back, before the reader has
\* taken the first: a single sample, a batch of two samples around an entry
\* that fails validation, and a single sample. The samples of a stream carry
\* the stream's metric type and timestamps that count up in sending order.
StreamType(s) == IF s = 1 THEN MetricType_CPU_USAGE ELSE MetricType_EBPF_RAW
StreamSample(s, ts) == RawMetric("cpu", ts, StreamType(s))

BurstFrames(s) ==
  << Lit(MarshalMetric(StreamSample(s, 1))),
     Lit(MarshalBatch([AgentId |-> "a1",
                       Metrics |-> << StreamSample(s, 2), StreamSample(s, 0),
                                      StreamSample(s, 3) >>])),
     Lit(MarshalMetric(StreamSample(s, 4))) >>

RECURSIVE FramesOf(_)
FramesOf(payloads) ==
  IF payloads = <<>> THEN <<>>
  ELSE Frame(Head(payloads)) \o FramesOf(Tail(payloads))

SendBurst(s) ==
  /\ ~crashed
  /\ pc[s] = "ReadingLength"
  /\ ~fin[s]
  /\ buf[s] = <<>>
  /\ handled[s] = <<>>
  /\ buf' = [buf EXCEPT ![s] = FramesOf(BurstFrames(s))]
  /\ sent' = sent + Len(BurstFrames(s))
  /\ UNCHANGED <<storeVars, conn, streamConn, pc, fin, length, logs, handled, crashed>>

OrderNext ==
  \/ \E c \in Conns : AcceptConn(c)
  \/ \E c \in Conns, s \in Streams : AcceptUniStream(c, s)
  \/ \E s \in Streams : SendBurst(s)
  \/ \E s \in Streams : ReadLength(s)
  \/ \E s \in Streams : ReadPayload(s)
  \/ Sweep
  \/ Clock

OrderSpec == Init /\ [][OrderNext]_vars

\* -------------------------------------------------------- the query surface

\* The limits, agent ids, type names and range bounds (epoch milliseconds) the
\* read-query collaborator passes.
Limits == (0 - 1)..MaxLimit
QueryAgents == AgentIDs
QueryTypes == { MetricTypeString(t) : t \in {MetricType_CPU_USAGE, MetricType_EBPF_RAW} }
RangeMillis == 0..3

\* The store holds any content a run of writes can leave in it.
QueryInit ==
  /\ metrics \in SeqsUpTo(SampleSet, maxSize)
  /\ now = 1
  /\ inserted = metrics
  /\ last = NoCall
  /\ mu = Unlocked
  /\ mem = NewMem
  /\ conn = [c \in Conns |-> "none"]
  /\ streamConn = [s \in Streams |-> 0]
  /\ pc = [s \in Streams |-> "unopened"]
  /\ buf = [s \in Streams |-> <<>>]
  /\ fin = [s \in Streams |-> FALSE]
  /\ length = [s \in Streams |-> 0]
  /\ logs = [s \in Streams |-> NoLogs]
  /\ handled = [s \in Streams |-> <<>>]
  /\ sent = 0
  /\ crashed = FALSE

Returned(r) == [panic |-> r.panic, result |-> r.result]

QueryByAgentID(agentID, limit) ==
  /\ last' = [op |-> "GetMetricsByAgentID", agentID |-> agentID, limit |-> limit,
              ret |-> Returned(GetMetricsByAgentID(metrics, agentID, limit))]
  /\ UNCHANGED <<metrics, now, inserted, mu, mem, streamVars>>

QueryByType(metricType, limit) ==
  /\ last' = [op |-> "GetMetricsByType", metricType |-> metricType, limit |-> limit,
              ret |-> Returned(GetMetricsByType(metrics, metricType, limit))]
  /\ UNCHANGED <<metrics, now, inserted, mu, mem, streamVars>>

\* getMetricsByTimeRange converts both bounds with time.UnixMilli.
QueryByTimeRange(start, end, limit) ==
  /\ last' = [op |-> "GetMetricsByTimeRange", start |-> start, end |-> end,
              limit |-> limit,
              ret |-> Returned(GetMetricsByTimeRange(metrics, UnixMilli(start),
                                                     UnixMilli(end), limit))]
  /\ UNCHANGED <<metrics, now, inserted, mu, mem, streamVars>>

QueryLatest(limit) ==
  /\ last' = [op |-> "GetLatestMetrics", limit |-> limit,
              ret |-> Returned(GetLatestMetrics(metrics, limit))]
  /\ UNCHANGED <<metrics, now, inserted, mu, mem, streamVars>>

QueryNext ==
  \/ \E a \in QueryAgents, l \in Limits : QueryByAgentID(a, l)
  \/ \E t \in QueryTypes, l \in Limits : QueryByType(t, l)
  \/ \E st \in RangeMillis, en \in RangeMillis, l \in Limits : QueryByTimeRange(st, en, l)
  \/ \E l \in Limits : QueryLatest(l)

QuerySpec == QueryInit /\ [][QueryNext]_vars

\* ------------------------------------------------------------------ claims

Min(a, b) == IF a < b THEN a ELSE b

\* The last n entries of seq, in order (all of seq when it is shorter).
LastN(seq, n) == SubSeq(seq, Len(seq) - Min(n, Len(seq)) + 1, Len(seq))

\* C1: under any interleaving of writes and sweeps the store never holds more
\* than maxSize entries, and right after a write that overflowed it holds
\* exactly the maxSize most recently inserted samples, in insertion order.
C1_BoundedNewestSurvive ==
  /\ Len(metrics) <= maxSize
  /\ (last.op = "SaveMetrics" /\ last.deleted > 0)
       => metrics = LastN(inserted, maxSize)

\* A single write of more than maxSize samples has overflowed the store.
C1_Witness ==
  /\ last.op = "SaveMetrics"
  /\ last.n > maxSize
  /\ last.deleted > 0
  /\ Len(metrics) = maxSize

\* Every entry is older than now - expireTime.
AllOlderThanExpiry(stored, nowMillis) ==
  \A i \in 1..Len(stored) : stored[i].Timestamp < UnixMilli(nowMillis) - expireTime

\* C2: a sweep of a store whose entries are all older than now - expireTime
\* leaves the store empty.
C2_AllExpiredEmptied ==
  [][(CleanExpired /\ AllOlderThanExpiry(metrics, now)) => metrics' = <<>>]_vars

\* C10: a second sweep at the same instant, with no write in between, changes
\* nothing: right after any sweep, sweeping again returns the store as it is.
C10_SweepIdempotent ==
  [][CleanExpired => CleanExpiredOp(metrics', UnixMilli(now')) = metrics']_vars

\* A sweep has just dropped entries and left others.
C10_Witness ==
  /\ last.op = "CleanExpired"
  /\ last.cleaned > 0
  /\ metrics # <<>>

\* The first min(limit, Len(matches)) entries of matches read from its end:
\* the most recently inserted matches, newest first.
NewestFirst(matches, limit) ==
  [i \in 1..Min(limit, Len(matches)) |-> matches[Len(matches) - i + 1]]

\* C7: for a positive limit, each filtered query returns exactly the
\* min(limit, matches) most recently inserted matching entries, newest first;
\* a time-range query matches start <= timestamp <= end, both inclusive.
C7_FilteredNewestFirst ==
  /\ (last.op = "GetMetricsByAgentID" /\ last.limit > 0) =>
       /\ ~last.ret.panic
       /\ last.ret.result =
            NewestFirst(SelectSeq(metrics, LAMBDA x : x.AgentID = last.agentID),
                        last.limit)
  /\ (last.op = "GetMetricsByType" /\ last.limit > 0) =>
       /\ ~last.ret.panic
       /\ last.ret.result =
            NewestFirst(SelectSeq(metrics, LAMBDA x : x.Type = last.metricType),
                        last.limit)
  /\ (last.op = "GetMetricsByTimeRange" /\ last.limit > 0) =>
       /\ ~last.ret.panic
       /\ last.ret.result =
            NewestFirst(SelectSeq(metrics,
                                  LAMBDA x : /\ UnixMilli(last.start) <= x.Timestamp
                                             /\ x.Timestamp <= UnixMilli(last.end)),
                        last.limit)

\* A range query whose bounds are the timestamps of the two stored entries
\* returned both, newest first: each bound admitted the entry that sits on it.
C7_Witness ==
  /\ last.op = "GetMetricsByTimeRange"
  /\ Len(metrics) = 2
  /\ metrics[1].Timestamp = UnixMilli(last.start)
  /\ metrics[2].Timestamp = UnixMilli(last.end)
  /\ last.start < last.end
  /\ last.ret.result = <<metrics[2], metrics[1]>>

\* C8: for a limit that is a count (limit >= 0), GetLatestMetrics returns
\* min(limit, size) entries and they are the tail of the store in insertion
\* order, oldest of the selection first; a limit above the size returns all.
C8_LatestOldestFirst ==
  (last.op = "GetLatestMetrics" /\ last.limit >= 0) =>
    LET res == last.ret.result
    IN  /\ ~last.ret.panic
        /\ Len(res) = Min(last.limit, Len(metrics))
        /\ \A i \in 1..Len(res) : res[i] = metrics[Len(metrics) - Len(res) + i]
        /\ last.limit > Len(metrics) => res = metrics

\* A limit above the size returned both entries of a two-entry store, and a
\* limit of one returned only the newest of two distinct entries.
C8_Witness ==
  /\ last.op = "GetLatestMetrics"
  /\ Len(metrics) = 2
  /\ metrics[1] # metrics[2]
  /\ last.limit > Len(metrics)
  /\ last.ret.result = metrics

\* The payload stream s is about to interpret: its reader holds a parsed
\* length and the whole payload has arrived.
PayloadReady(s) == pc[s] = "ReadingPayload" /\ ByteLen(buf[s]) >= length[s]
Payload(s) == TakeBytes(buf[s], length[s])

\* The frame at the head of stream s is a single-sample frame (batch decode
\* fails, single decode succeeds) whose sample fails validation.
InvalidSingleFrame(s) ==
  /\ PayloadReady(s)
  /\ ~UnmarshalBatch(Payload(s)).ok
  /\ UnmarshalMetric(Payload(s)).ok
  /\ validateMetric(UnmarshalMetric(Payload(s)).metric) # "nil"

\* C3: handling a single-sample frame whose sample fails validation reports
\* the error, writes nothing, leaves the store as it is and takes the stream
\* back to reading the next frame; the process does not crash.
C3_InvalidSingleSkipped ==
  [][\A s \in Streams :
       (ReadPayload(s) /\ InvalidSingleFrame(s)) =>
         /\ logs'[s].validation = logs[s].validation + 1
         /\ metrics' = metrics
         /\ inserted' = inserted
         /\ pc'[s] = "ReadingLength"
         /\ ~crashed']_vars

\* C4: whatever failure a stream has met (I/O error, oversized frame,
\* undecodable frame, validation failure), the process lives on and every
\* other stream with a frame waiting can take its next step.
C4_FailureIsolated ==
  \A s \in Streams :
    (\/ pc[s] \in {"ClosedError", "Panicked"}
     \/ logs[s].decode > 0
     \/ logs[s].validation > 0) =>
      /\ ~crashed
      /\ \A t \in Streams \ {s} :
           (pc[t] = "ReadingLength" /\ ByteLen(buf[t]) >= 4) => ENABLED ReadLength(t)

\* The frame at the head of stream s decodes as neither message.
UndecodableFrame(s) ==
  /\ PayloadReady(s)
  /\ ~UnmarshalBatch(Payload(s)).ok
  /\ ~UnmarshalMetric(Payload(s)).ok

\* C5: handling an undecodable frame takes exactly its declared length off the
\* stream, leaves the store unchanged, writes one diagnostic record and returns
\* the stream to reading a length prefix; and a stream whose handler has seen
\* a valid single-sample frame, an undecodable frame and a valid single-sample
\* frame, in that order, has stored two samples and logged one diagnostic.
C5_UndecodableResync ==
  /\ [][\A s \in Streams :
          (ReadPayload(s) /\ UndecodableFrame(s)) =>
            /\ ByteLen(buf[s]) - ByteLen(buf'[s]) = length[s]
            /\ metrics' = metrics
            /\ inserted' = inserted
            /\ logs'[s] = [logs[s] EXCEPT !.decode = @ + 1]
            /\ pc'[s] = "ReadingLength"
            /\ ~crashed']_vars
  /\ [](\A s \in Streams :
          (/\ Len(handled[s]) = 3
           /\ handled[s][1].kind = "single"
           /\ handled[s][2].kind = "undecodable"
           /\ handled[s][3].kind = "single") =>
            /\ logs[s].saved = 2
            /\ logs[s].decode = 1
            /\ logs[s].validation = 0)

\* Stream 1 alone has carried [valid single][undecodable][valid single]; both
\* samples are in the store and its reader waits for the next prefix.
C5_Witness ==
  /\ Len(handled[1]) = 3
  /\ handled[1][1].kind = "single"
  /\ handled[1][2].kind = "undecodable"
  /\ handled[1][3].kind = "single"
  /\ pc[1] = "ReadingLength"
  /\ buf[1] = <<>>
  /\ Len(metrics) = 2
  /\ logs[1].decode = 1

\* The frame at the head of stream s decodes as a batch request.
BatchFrame(s) == PayloadReady(s) /\ UnmarshalBatch(Payload(s)).ok

\* What a raw metric of an envelope from agentId is stored as.
Normalized(agentId, m) ==
  [AgentID |-> agentId, Timestamp |-> m.Timestamp * NanosPerMilli, Name |-> m.Name,
   Type |-> MetricTypeString(m.Type), RawType |-> m.Type]

PassesValidation(m) ==
  /\ m.Name # ""
  /\ m.Timestamp > 0
  /\ m.Type \in MetricType_CPU_USAGE..MetricType_EBPF_RAW

\* C6: handling a batch envelope appends to the store exactly its entries
\* that pass validation, in batch order and under the envelope's agent id, and
\* logs one validation failure for each entry that does not.
C6_BatchPartialSuccess ==
  [][\A s \in Streams :
       (ReadPayload(s) /\ BatchFrame(s)) =>
         LET req == UnmarshalBatch(Payload(s)).req
             good == SelectSeq(req.Metrics, PassesValidation)
             written == [i \in 1..Len(good) |-> Normalized(req.AgentId, good[i])]
         IN  /\ inserted' = inserted \o written
             /\ metrics' = LastN(metrics \o written, maxSize)
             /\ logs'[s].validation = logs[s].validation + Len(req.Metrics) - Len(good)
             /\ logs'[s].saved = logs[s].saved + Len(good)
             /\ pc'[s] = "ReadingLength"]_vars

\* A stream's only frame was a batch of one invalid and one valid entry: one
\* sample is stored, under the envelope's agent id, and one failure is logged.
C6_Witness ==
  \E s \in Streams :
    /\ Len(handled[s]) = 1
    /\ handled[s][1].kind = "batch"
    /\ logs[s].validation = 1
    /\ logs[s].saved = 1
    /\ metrics = <<Normalized("a1", v2)>>

\* The length the prefix at the head of stream s announces.
AnnouncedLength(s) ==
  LET b == Expand(TakeBytes(buf[s], 4))
  IN  b[1] * 16777216 + b[2] * 65536 + b[3] * 256 + b[4]

PrefixReady(s) == pc[s] = "ReadingLength" /\ ByteLen(buf[s]) >= 4

\* C9: a prefix above 10,485,760 ends the stream in its error state with only
\* the four prefix bytes taken and the store untouched; a prefix of exactly
\* 10,485,760 is accepted and its payload awaited; and a stream that has ended
\* reads and writes nothing more.
C9_OversizeAborts ==
  [][\A s \in Streams :
       /\ (ReadLength(s) /\ PrefixReady(s) /\ AnnouncedLength(s) > 10485760) =>
            /\ pc'[s] = "ClosedError"
            /\ ByteLen(buf[s]) - ByteLen(buf'[s]) = 4
            /\ metrics' = metrics
            /\ inserted' = inserted
       /\ (ReadLength(s) /\ PrefixReady(s) /\ AnnouncedLength(s) = 10485760) =>
            /\ pc'[s] = "ReadingPayload"
            /\ length'[s] = 10485760
       /\ pc[s] \in {"ClosedError", "ClosedClean"} =>
            /\ pc'[s] = pc[s]
            /\ buf'[s] = buf[s]
            /\ logs'[s] = logs[s]
            /\ handled'[s] = handled[s]]_vars

\* A stream stored a sample, then read a frame of exactly the ceiling, then
\* was aborted by an oversized prefix with the frame's bytes still unread and
\* the earlier sample still in the store.
C9_Witness ==
  \E s \in Streams :
    /\ pc[s] = "ClosedError"
    /\ length[s] = 10485761
    /\ ByteLen(buf[s]) = 4
    /\ Len(handled[s]) = 2
    /\ handled[s][1].kind = "single"
    /\ handled[s][2].len = 10485760
    /\ logs[s].saved = 1
    /\ Len(metrics) = 1

\* The number of positions of seq that hold x.
Occurrences(seq, x) == Cardinality({ i \in 1..Len(seq) : seq[i] = x })

\* The samples the step's write appended (empty when the step is no write).
Written == SubSeq(inserted', Len(inserted) + 1, Len(inserted'))

\* What queryByAgent returns right after the step, asked for x's agent.
AgentResultAfter(x, limit) == GetMetricsByAgentID(metrics', x.AgentID, limit).result

\* The limits that cover every entry of x's agent the store holds after the step.
SufficientLimits(x) ==
  Len(SelectSeq(metrics', LAMBDA y : y.AgentID = x.AgentID)) .. (maxSize + 1)

\* C11 as stated: every sample a write carried appears exactly once in the
\* result of queryByAgent for its agent id and a sufficient limit.
C11_RoundTripExactlyOnce ==
  [][\A i \in 1..Len(Written) : \A limit \in SufficientLimits(Written[i]) :
       Occurrences(AgentResultAfter(Written[i], limit), Written[i]) = 1]_vars

\* C11, amended: right after a write, queryByAgent with the sample's agent id
\* and a sufficient limit returns the sample, field for field, as many times as
\* the store holds an equal entry: at least once when the write carried at most
\* maxSize samples, and exactly once when moreover no equal sample was stored
\* before the write or written beside it.
C11_RoundTrip ==
  [][\A i \in 1..Len(Written) : \A limit \in SufficientLimits(Written[i]) :
       LET x == Written[i]
           n == Occurrences(AgentResultAfter(x, limit), x)
       IN  /\ n = Occurrences(metrics', x)
           /\ Len(Written) <= maxSize => n >= 1
           /\ (/\ Len(Written) <= maxSize
               /\ Occurrences(metrics, x) = 0
               /\ Occurrences(Written, x) = 1) => n = 1]_vars

\* A write of one sample into a store that held one sample of the other agent:
\* the new sample is the newest entry and the only one of its agent.
C11_Witness ==
  /\ last.op = "SaveMetrics"
  /\ last.n = 1
  /\ Len(metrics) = 2
  /\ metrics[1].AgentID # metrics[2].AgentID
  /\ GetMetricsByAgentID(metrics, metrics[2].AgentID, 1).result = <<metrics[2]>>

\* The samples the first k frames of stream s's burst put into the store, in
\* frame order and, within the batch, in batch order.
RECURSIVE BurstSamples(_, _)
BurstSamples(s, k) ==
  IF k = 0 THEN <<>>
  ELSE LET data == BurstFrames(s)[k]
           batch == UnmarshalBatch(data)
           good == IF batch.ok
                   THEN SelectSeq(batch.req.Metrics, PassesValidation)
                   ELSE <<UnmarshalMetric(data).metric>>
           agent == IF batch.ok THEN batch.req.AgentId ELSE ""
       IN  BurstSamples(s, k - 1) \o [i \in 1..Len(good) |-> Normalized(agent, good[i])]

\* The entries of seq that stream s sent.
FromStream(seq, s) == SelectSeq(seq, LAMBDA x : x.RawType = StreamType(s))

\* C12: with each stream's frames queued back to back, at every moment the
\* samples a stream has inserted are exactly those of the frames its handler
\* has finished, in frame order and batch order (no frame is read before the
\* one ahead of it is written); and of two samples of one stream that are both
\* in the store, the one sent earlier sits earlier, however the other stream
\* and the sweeper interleave.
C12_StreamOrder ==
  /\ \A s \in Streams :
       FromStream(inserted, s) = BurstSamples(s, Len(handled[s]))
  /\ \A i, j \in 1..Len(metrics) :
       (i < j /\ metrics[i].RawType = metrics[j].RawType)
         => metrics[i].Timestamp < metrics[j].Timestamp

\* Both streams have finished their three frames, their writes interleaved,
\* and the two entries left in the store are the last two samples of stream 1.
C12_Witness ==
  /\ Len(handled[1]) = 3
  /\ Len(handled[2]) = 3
  /\ \E i \in 1..(Len(inserted) - 1) :
       /\ inserted[i].RawType = StreamType(2)
       /\ inserted[i + 1].RawType = StreamType(1)
  /\ \E i \in 1..(Len(inserted) - 1) :
       /\ inserted[i].RawType = StreamType(1)
       /\ inserted[i + 1].RawType = StreamType(2)
  /\ Len(metrics) = 2
  /\ metrics[1].RawType = StreamType(1)
  /\ metrics[2].RawType = StreamType(1)

\* The kind of the frame stream s's handler has just recorded.
LastHandledKind(s) == handled'[s][Len(handled'[s])].kind

\* C13: a frame that decodes as a batch request is handled as a batch, also
\* when it decodes as a single metric as well (its entries are processed as a
\* batch, and no single-sample validation or write happens); a frame is
\* handled as a single sample only when the batch decode fails and the single
\* decode succeeds; and it is treated as undecodable only when both fail.
C13_BatchDecodeFirst ==
  [][\A s \in Streams :
       (ReadPayload(s) /\ PayloadReady(s)) =>
         LET batch == UnmarshalBatch(Payload(s))
             single == UnmarshalMetric(Payload(s))
         IN  /\ Len(handled'[s]) = Len(handled[s]) + 1
             /\ batch.ok =>
                  /\ LastHandledKind(s) = "batch"
                  /\ inserted' = inserted \o ProcessBatchRequest(batch.req).processedMetrics
                  /\ ~crashed'
             /\ (~batch.ok /\ single.ok) => LastHandledKind(s) \in {"single", "invalid"}
             /\ (LastHandledKind(s) \in {"single", "invalid"}) => (~batch.ok /\ single.ok)
             /\ (LastHandledKind(s) = "undecodable") <=> (~batch.ok /\ ~single.ok)]_vars

\* A stream's handler has taken an empty payload, which decodes as both
\* messages, as a batch of no entries: nothing stored, nothing logged, and the
\* handler reads on.
C13_Witness ==
  \E s \in Streams :
    /\ Len(handled[s]) = 1
    /\ handled[s][1] = [kind |-> "batch", len |-> 0]
    /\ pc[s] = "ReadingLength"
    /\ logs[s] = NoLogs
    /\ ~crashed

\* The sweep's threshold at wall-clock time nowMillis: now - expireTime.
Threshold(nowMillis) == UnixMilli(nowMillis) - expireTime

\* The least index of stored whose entry satisfies Fresh (there is one).
FirstIndex(stored, Fresh(_)) ==
  CHOOSE i \in 1..Len(stored) :
    /\ Fresh(stored[i])
    /\ \A j \in 1..(i - 1) : ~Fresh(stored[j])

InStore(k) == k <= Len(inserted) /\ k > Len(inserted) - Len(metrics)

\* C15: with timestamps non-decreasing in insertion order and the sweeper
\* firing for ever, every stored entry whose timestamp has become older than
\* now - expireTime is eventually gone from the store, also when no further
\* write arrives.
C15_ExpiredEventuallyRemoved ==
  \A k \in 1..MaxInserted :
    (InStore(k) /\ inserted[k].Timestamp < UnixMilli(now) - expireTime)
      ~> ~InStore(k)

\* The samples of one write sit side by side in seq: a write is told by its
\* agent id and timestamp.
SameWrite(x, y) == x.AgentID = y.AgentID /\ x.Timestamp = y.Timestamp
Consecutive(seq) ==
  \A i, k \in 1..Len(seq) :
    (i < k /\ SameWrite(seq[i], seq[k])) =>
      \A j \in i..k : SameWrite(seq[i], seq[j])

\* No write shows in seq without its end: every first sample of a two-sample
\* write is followed by the second.
NoPartialWrite(seq) ==
  \A i \in 1..Len(seq) :
    seq[i].RawType = MetricType_CPU_USAGE =>
      /\ i < Len(seq)
      /\ SameWrite(seq[i], seq[i + 1])
      /\ seq[i + 1].RawType = MetricType_EBPF_RAW

\* C16: with SaveMetrics followed statement by statement, two writers, a
\* reader and the sweeper interleaved: the samples of one write are consecutive
\* in insertion order; a query never runs while a write is under way, and
\* what it returns holds at most maxSize entries and no write without its end;
\* and when a write returns, the store is the store it found with all its
\* samples appended and the oldest entries cut, whatever the other tasks did.
C16_WriteAtomic ==
  /\ [](/\ Consecutive(inserted)
        /\ mu.readers # {} => (\A w \in Writers : mu.step[w] = "idle")
        /\ Cardinality({ w \in Writers : mu.step[w] # "idle" }) <= 1
        /\ last.op = "GetLatestMetrics" =>
             /\ Len(last.ret.result) <= maxSize
             /\ Consecutive(last.ret.result)
             /\ NoPartialWrite(last.ret.result))
  /\ [][\A w \in Writers :
          WriterTrimUnlock(w) =>
            metrics' = LastN(mu.before[w] \o mu.new[w], maxSize)]_vars

\* A query returned a full store whose entries come from both writers, the
\* older one being the end of a two-sample write whose start was cut.
C16_Witness ==
  /\ last.op = "GetLatestMetrics"
  /\ Len(last.ret.result) = maxSize
  /\ last.ret.result[maxSize - 1].AgentID = "a1"
  /\ last.ret.result[maxSize].AgentID = "a2"
  /\ Len(inserted) > maxSize

\* C17: validation reports the first failing check of a fixed order: an empty
\* name gives EmptyName whatever the other fields; otherwise a timestamp <= 0
\* gives InvalidTimestamp whatever the type; otherwise a type outside
\* [CPU_USAGE, EBPF_RAW] gives InvalidType; otherwise validation succeeds and
\* the normalised sample is produced.
C17_ValidateOrder ==
  last.op = "ProcessSingleMetric" =>
    LET x == last.metric
        typeOk == x.Type >= 0 /\ x.Type <= 2
    IN  /\ x.Name = "" => last.ret.err = "ErrEmptyMetricName"
        /\ (x.Name # "" /\ x.Timestamp <= 0) => last.ret.err = "ErrInvalidTimestamp"
        /\ (x.Name # "" /\ x.Timestamp > 0 /\ ~typeOk) =>
             last.ret.err = "ErrInvalidMetricType"
        /\ (x.Name # "" /\ x.Timestamp > 0 /\ typeOk) =>
             /\ last.ret.err = "nil"
             /\ ~last.ret.isNil
             /\ last.ret.metric = Normalized(last.agentID, x)
        /\ last.ret.err # "nil" => last.ret.isNil

\* A metric failing all three checks was reported for its empty name.
C17_Witness ==
  /\ last.op = "ProcessSingleMetric"
  /\ last.metric.Name = ""
  /\ last.metric.Timestamp <= 0
  /\ last.metric.Type > MetricType_EBPF_RAW
  /\ last.ret.err = "ErrEmptyMetricName"

\* The int64 one.
One64 == [i \in 1..Int64Bytes |-> IF i = 1 THEN 1 ELSE 0]

\* C18: for every strictly positive 64-bit wire timestamp that passes
\* validation, the stored instant is exactly that many milliseconds after the
\* epoch: the product with 1,000,000 computed in full width has nothing above
\* the int64's 63 value bits; and the conversion keeps the order against the
\* timestamp 1.
C18_MillisToNanosExact ==
  (last.op = "UnixNano" /\ last.valid) =>
    /\ MulFrom(last.wire, Millisecond64, 1, 2 * Int64Bytes, 0)
         = last.nanos \o [i \in 1..Int64Bytes |-> 0]
    /\ ~Negative64(last.nanos)
    /\ Less64(One64, last.wire) => Less64(UnixNano64(One64), last.nanos)

\* C19: every store query returns a result sequence, for every integer limit
\* the read-query collaborator can pass, and an empty one for a limit <= 0.
C19_NonPositiveLimitEmpty ==
  last.op \in {"GetLatestMetrics", "GetMetricsByAgentID", "GetMetricsByType",
               "GetMetricsByTimeRange"} =>
    /\ ~last.ret.panic
    /\ last.limit <= 0 => last.ret.result = <<>>

\* C20: whatever the store holds, in timestamp order or not, a sweep cuts a
\* front part of the store and every entry it cuts has a timestamp at or before
\* now - expireTime: no entry strictly newer than the threshold is dropped.
C20_SweepKeepsFresh ==
  [][CleanExpired =>
       LET cut == Len(metrics) - Len(metrics')
       IN  /\ cut >= 0
           /\ metrics' = SubSeq(metrics, cut + 1, Len(metrics))
           /\ \A i \in 1..cut : metrics[i].Timestamp <= UnixMilli(now) - expireTime
           /\ Len(SelectSeq(metrics', LAMBDA x : x.Timestamp > UnixMilli(now) - expireTime))
                = Len(SelectSeq(metrics, LAMBDA x : x.Timestamp > UnixMilli(now) - expireTime))]_vars

\* Samples have arrived out of timestamp order, and a sweep has cut an entry
\* and kept a strictly newer one.
C20_Witness ==
  /\ last.op = "CleanExpired"
  /\ last.cleaned > 0
  /\ \E i \in 1..(Len(inserted) - 1) : inserted[i].Timestamp > inserted[i + 1].Timestamp
  /\ \E i \in 1..Len(metrics) : metrics[i].Timestamp > UnixMilli(now) - expireTime

\* The validation predicate, on a stored entry: a name, a timestamp that is a
\* strictly positive number of milliseconds, a type of the enum under its name.
ValidEntry(x) ==
  /\ x.Name # ""
  /\ x.Timestamp > 0
  /\ x.Timestamp % NanosPerMilli = 0
  /\ x.RawType >= 0 /\ x.RawType <= 2
  /\ x.Type \in {"CPU_USAGE", "MEMORY_USAGE", "EBPF_RAW"}

\* C21: in every reachable state every entry of the store, and every sample
\* ever inserted, satisfies the validation predicate, whichever path (batch or
\* single sample) brought it in.
C21_StoredEntriesValid ==
  /\ \A i \in 1..Len(metrics) : ValidEntry(metrics[i])
  /\ \A i \in 1..Len(inserted) : ValidEntry(inserted[i])

\* A batch with a failing entry and a single-sample frame that failed
\* validation have both been handled, and the store holds what was valid.
C21_Witness ==
  /\ metrics # <<>>
  /\ \E s \in Streams : \E i \in 1..Len(handled[s]) : handled[s][i].kind = "invalid"
  /\ \E s \in Streams : \E i \in 1..Len(handled[s]) :
       handled[s][i].kind = "batch" /\ logs[s].validation > 0

\* C22: a result of queryLatest stays as the caller received it: whatever
\* writes (append, then the cut at the front) and sweeps follow, the slice
\* still shows the entries it showed on return, as many as then; and the
\* store's own slice shows what the writes and sweeps make of it.
C22_LatestResultStable ==
  /\ \A i \in 1..Len(mem.results) :
       /\ View(mem.arrays, mem.results[i].slice) = mem.results[i].seen
       /\ mem.results[i].slice.len = Len(mem.results[i].seen)
  /\ metrics = View(mem.arrays, mem.hdr)
  /\ metrics = LastN(inserted, Len(metrics))

\* A returned result of two entries lies in the array the store still uses;
\* since it was returned the store has appended behind it, in place, and cut
\* its front past the result's first entry.
C22_Witness ==
  \E i \in 1..Len(mem.results) :
    LET r == mem.results[i].slice
    IN  /\ r.len = 2
        /\ r.arr = mem.hdr.arr
        /\ mem.hdr.off > r.off
        /\ mem.hdr.off + mem.hdr.len > r.off + r.len

====
